---- MODULE Spec2Model ----
(***************************************************************************)
(* A model of s3fs: the afero filesystem adapter over an S3 bucket.        *)
(*                                                                         *)
(*   S3Fs   (the namespace adapter)  Create, Open, RemoveAll, Rename       *)
(*   S3File (the handle)             Close, Read, Readdir, Readdirnames,   *)
(*                                   Write                                 *)
(*                                                                         *)
(* Paths and keys are sequences of one-character strings, so that          *)
(* strings.TrimLeft, strings.HasSuffix, filepath.Join and filepath.Base    *)
(* are computed as Go computes them.  The bucket behind the s3api          *)
(* interface is the variable content; the interface's implementation (the  *)
(* AWS client) is not part of the repository and is modelled from the      *)
(* capability surface the specification gives for it.                      *)
(***************************************************************************)
EXTENDS Integers, Sequences, FiniteSets, TLC

(***************************************************************************)
(* Bounds of the model.                                                    *)
(***************************************************************************)
\* longest path handed to an operation
MaxPathLen == 2
\* most keys the bucket holds at a time
MaxObjects == 3
\* largest count handed to Readdir / Readdirnames
MaxCount == 2
\* most keys the store returns in one listing page (1000 on S3), scaled down
StorePageCap == 2
\* largest buffer handed to Read
MaxBuf == 2
\* most Close calls followed on one stream
MaxCloses == 2
\* threads sharing one handle in SpecRW
NumThreads == 2
\* most listing calls of one Readdir against a store that pages as it likes
MaxPages == 4

(***************************************************************************)
(* Strings.                                                                *)
(***************************************************************************)
Sep == "/"

Chars == {Sep, "a"}

SeqsUpTo(S, n) == UNION {[1..m -> S] : m \in 0..n}

\* the paths callers hand to the adapter
Paths == SeqsUpTo(Chars, MaxPathLen) \ {<<>>}

\* the payloads callers write
Payloads == {<<>>, <<"h", "i">>}

\* the adapter's bucket name
Bucket == <<"b">>

Min(a, b) == IF a <= b THEN a ELSE b

\* byte order of the characters ("/" is 0x2F, letters are above it)
CharRank(c) == IF c = Sep THEN 0 ELSE IF c = "a" THEN 1 ELSE 2

RECURSIVE KeyLess(_, _)
\* s < t in the byte-wise lexicographic order S3 lists keys in
KeyLess(s, t) ==
    IF t = <<>> THEN FALSE
    ELSE IF s = <<>> THEN TRUE
    ELSE IF Head(s) # Head(t) THEN CharRank(Head(s)) < CharRank(Head(t))
    ELSE KeyLess(Tail(s), Tail(t))

RECURSIVE TrimLeft(_)
\* strings.TrimLeft(s, "/")
TrimLeft(s) ==
    IF s # <<>> /\ Head(s) = Sep THEN TrimLeft(Tail(s)) ELSE s

\* strings.HasSuffix(s, "/")
HasSuffix(s) == Len(s) > 0 /\ s[Len(s)] = Sep

\* strings.HasPrefix(s, p)
HasPrefix(s, p) == Len(p) <= Len(s) /\ SubSeq(s, 1, Len(p)) = p

RECURSIVE TrimRight(_)
\* s without its trailing separators
TrimRight(s) ==
    IF s # <<>> /\ s[Len(s)] = Sep THEN TrimRight(SubSeq(s, 1, Len(s) - 1)) ELSE s

RECURSIVE Squeeze(_)
\* s with every run of separators replaced by one separator
Squeeze(s) ==
    IF Len(s) < 2 THEN s
    ELSE IF s[1] = Sep /\ s[2] = Sep THEN Squeeze(Tail(s))
    ELSE <<s[1]>> \o Squeeze(Tail(s))

\* filepath.Clean(s) for paths without "." and ".." elements: runs of
\* separators collapse, a trailing separator goes unless the path is the root
Clean(s) ==
    IF s = <<>> THEN <<".">>
    ELSE LET q == Squeeze(s)
         IN  IF q = <<Sep>> THEN q ELSE TrimRight(q)

\* filepath.Join(a, b): the non-empty elements joined by a separator, cleaned
Join(a, b) ==
    IF a = <<>> /\ b = <<>> THEN <<>>
    ELSE IF a = <<>> THEN Clean(b)
    ELSE IF b = <<>> THEN Clean(a)
    ELSE Clean(a \o <<Sep>> \o b)

RECURSIVE LastSep(_)
\* index of the last separator of s, 0 if none
LastSep(s) ==
    IF s = <<>> THEN 0
    ELSE IF s[Len(s)] = Sep THEN Len(s)
    ELSE LastSep(SubSeq(s, 1, Len(s) - 1))

\* filepath.Base(s): the last element of s, trailing separators removed first
Base(s) ==
    IF s = <<>> THEN <<".">>
    ELSE LET t == TrimRight(s)
         IN  IF t = <<>> THEN <<Sep>>
             ELSE SubSeq(t, LastSep(t) + 1, Len(t))

\* the file part of filepath.Split(s): what follows the last separator
SplitFile(s) == SubSeq(s, LastSep(s) + 1, Len(s))


(***************************************************************************)
(* The store behind the s3api interface.  A bucket is a function from the  *)
(* keys it holds to objects [body, deleteMarker].  Every call can also     *)
(* fail at the store; the caller of an operator below chooses that.        *)
(***************************************************************************)
\* a stream over an object's body, as GetObjectOutput.Body: what was fetched,
\* how far it was read, whether Close was called on it and how often
NewBody(data) == [data |-> data, pos |-> 0, closed |-> FALSE, closes |-> 0]

\* a nil *s3.GetObjectOutput
NilOutput ==
    [nil |-> TRUE, Body |-> NewBody(<<>>), ContentLength |-> 0,
     DeleteMarker |-> FALSE]

\* get(bucket, key) -> (content-stream, size, deletionMarkerFlag) | NotFound
GetObject(c, key) ==
    IF key \in DOMAIN c
    THEN [err |-> "nil",
          out |-> [nil |-> FALSE, Body |-> NewBody(c[key].body),
                   ContentLength |-> Len(c[key].body),
                   DeleteMarker |-> c[key].deleteMarker]]
    ELSE [err |-> "NotFound", out |-> NilOutput]

\* put(bucket, key, body) -> Ack: the object at key is replaced as a whole
PutObject(c, key, body) ==
    [k \in DOMAIN c \cup {key} |->
        IF k = key THEN [body |-> body, deleteMarker |-> FALSE] ELSE c[k]]

\* delete(bucket, key) -> Ack
DeleteObject(c, key) == [k \in DOMAIN c \ {key} |-> c[k]]

\* deleteBatch(bucket, keys[]) -> Ack
DeleteObjects(c, keys) == [k \in DOMAIN c \ keys |-> c[k]]

RECURSIVE FirstSep(_)
\* index of the first separator of s, 0 if none
FirstSep(s) ==
    IF s = <<>> THEN 0
    ELSE IF Head(s) = Sep THEN 1
    ELSE LET i == FirstSep(Tail(s)) IN IF i = 0 THEN 0 ELSE i + 1

\* the key a copy source reference "bucket/key" names, <<>> if it names none
CopySourceKey(source) ==
    LET i == FirstSep(source)
    IN  IF i = 0 \/ SubSeq(source, 1, i - 1) # Bucket THEN <<>>
        ELSE SubSeq(source, i + 1, Len(source))

\* copy(bucket, sourceRef, destKey) -> Ack | error; the store refuses to copy
\* an object onto itself
CopyObject(c, source, dest) ==
    LET k == CopySourceKey(source)
    IN  IF k \notin DOMAIN c THEN [err |-> "NotFound", content |-> c]
        ELSE IF k = dest THEN [err |-> "InvalidRequest", content |-> c]
        ELSE [err |-> "nil", content |-> PutObject(c, dest, c[k].body)]

\* waitUntilExists(bucket, key) -> Ack | Timeout
WaitUntilObjectExists(c, key) == IF key \in DOMAIN c THEN "nil" ELSE "Timeout"

RECURSIVE SortKeys(_)
\* the keys of S in listing order
SortKeys(S) ==
    IF S = {} THEN <<>>
    ELSE LET m == CHOOSE x \in S : \A y \in S \ {x} : KeyLess(x, y)
         IN  <<m>> \o SortKeys(S \ {m})

\* the keys of the bucket that begin with prefix, in listing order
KeysUnder(c, prefix) == SortKeys({k \in DOMAIN c : HasPrefix(k, prefix)})

\* listPrefix(bucket, prefix, continuationToken?, maxKeys?)
\*   -> (entries[], isTruncated, nextToken?)
\* token and maxKeys are <<>> when absent, <<v>> when given; a page holds at
\* most maxKeys and at most StorePageCap keys, and the token is the last key
\* of the page it came with
ListObjectsV2(c, prefix, token, maxKeys) ==
    LET all   == KeysUnder(c, prefix)
        After(k) == KeyLess(token[1], k)
        rest  == IF token = <<>> THEN all ELSE SelectSeq(all, After)
        limit == IF maxKeys = <<>> THEN StorePageCap
                 ELSE Min(maxKeys[1], StorePageCap)
        page  == SubSeq(rest, 1, Min(limit, Len(rest)))
        more  == Len(rest) > Len(page)
    IN  [Contents |-> [i \in 1..Len(page) |->
                          [Key |-> page[i], Size |-> Len(c[page[i]].body)]],
         IsTruncated |-> more,
         NextContinuationToken |-> IF more THEN <<page[Len(page)]>> ELSE <<>>]


(***************************************************************************)
(* State.                                                                  *)
(***************************************************************************)
VARIABLES
    content,    \* the bucket: key -> [body, deleteMarker]
    file,       \* the caller's handle: the *S3File the last Create/Open returned
    pc,         \* where the caller is: "idle", or inside a multi-call operation
    frame,      \* the local variables of the operation the caller is inside
    ret,        \* what the last operation returned
    calls,      \* the store calls the last (or running) operation issued
    threads,    \* SpecRW: per thread, where it is inside Read / Close
    readers     \* SpecRW: how many threads hold f.m.RLock

vars == <<content, file, pc, frame, ret, calls, threads, readers>>

\* a nil *S3File
NilFile == [nil |-> TRUE, key |-> <<>>, s3ObjectOutput |-> NilOutput]

\* &S3File{key: key, s3ObjectOutput: out}
S3File(key, out) == [nil |-> FALSE, key |-> key, s3ObjectOutput |-> out]

NoFrame == [op |-> "none"]

\* what an operation returned: its name, the error and the value.  was is an
\* observation kept for the properties: what the operation found before it
\* acted
Ret(op, err, val, was) == [op |-> op, err |-> err, val |-> val, was |-> was]

NoRet == Ret("none", "nil", 0, <<>>)

\* the bucket has room for key
Room(c, key) == key \in DOMAIN c \/ Cardinality(DOMAIN c) < MaxObjects

Threads == 1..NumThreads

IdleThreads == [t \in Threads |-> [pc |-> "idle", buf |-> 0]]

(***************************************************************************)
(* S3Fs: the namespace adapter.                                            *)
(***************************************************************************)
\* a Create that puts at the path as given
CreateKeyLiteral(name) == name

\* the key Create puts at
CreateKey(name) == TrimLeft(name)

\* an Open that gets the path as given
OpenKeyLiteral(name) == name

\* the key Open gets
OpenKey(name) == TrimLeft(name)

\* S3Fs.Open on bucket c: the handle and the error it returns
OpenResult(c, name, ok) ==
    LET r == IF ok THEN GetObject(c, OpenKey(name))
             ELSE [err |-> "StoreError", out |-> NilOutput]
    IN  IF r.err # "nil" THEN [file |-> NilFile, err |-> r.err]
        ELSE IF r.out.DeleteMarker THEN [file |-> NilFile, err |-> "Deleted"]
        ELSE [file |-> S3File(name, r.out), err |-> "nil"]

\* S3Fs.Open(name)
Open(name) ==
    /\ pc = "idle"
    /\ \E ok \in BOOLEAN :
         LET r == OpenResult(content, name, ok)
         IN  /\ file' = r.file
             /\ ret' = Ret("Open", r.err, 0, <<>>)
    /\ calls' = <<"GetObject">>
    /\ UNCHANGED <<content, pc, frame, threads, readers>>

\* S3Fs.Create(name)
Create(name) ==
    /\ pc = "idle"
    /\ IF HasSuffix(name)
       THEN /\ file' = S3File(name, NilOutput)
            /\ ret' = Ret("Create", "nil", 0, <<>>)
            /\ calls' = <<>>
            /\ UNCHANGED content
       ELSE /\ Room(content, CreateKey(name))
            /\ \E putOk \in BOOLEAN :
                 IF ~putOk
                 THEN /\ file' = NilFile
                      /\ ret' = Ret("Create", "StoreError", 0, <<>>)
                      /\ calls' = <<"PutObject">>
                      /\ UNCHANGED content
                 ELSE /\ content' = PutObject(content, CreateKey(name), <<>>)
                      /\ calls' = <<"PutObject", "GetObject">>
                      /\ \E ok \in BOOLEAN :
                           LET r == OpenResult(content', name, ok)
                           IN  /\ file' = r.file
                               /\ ret' = Ret("Create", r.err, 0, <<>>)
    /\ UNCHANGED <<pc, frame, threads, readers>>

(***************************************************************************)
(* The stream of a fetched object (GetObjectOutput.Body, an io.ReadCloser  *)
(* of the client library).                                                 *)
(***************************************************************************)
\* Body.Close(): the stream is released
BodyClose(b) == [b EXCEPT !.closed = TRUE, !.closes = @ + 1]

\* what Body.Close() can return: a stream released before may say so
BodyCloseErrs(b) == IF b.closed THEN {"nil", "AlreadyClosed"} ELSE {"nil"}

\* Body.Read(p) with len(p) = n: the bytes read, the error and the stream after
BodyRead(b, n) ==
    IF b.closed THEN [data |-> <<>>, err |-> "ReadOnClosed", body |-> b]
    ELSE IF n = 0 THEN [data |-> <<>>, err |-> "nil", body |-> b]
    ELSE IF b.pos = Len(b.data) THEN [data |-> <<>>, err |-> "EOF", body |-> b]
    ELSE LET k == Min(n, Len(b.data) - b.pos)
         IN  [data |-> SubSeq(b.data, b.pos + 1, b.pos + k), err |-> "nil",
              body |-> [b EXCEPT !.pos = @ + k]]

(***************************************************************************)
(* S3File: the handle.                                                     *)
(***************************************************************************)
\* a Close that leaves a stream it released before alone
CloseFileOnce(f) ==
    IF f.s3ObjectOutput.nil \/ f.s3ObjectOutput.Body.closed THEN f
    ELSE [f EXCEPT !.s3ObjectOutput.Body = BodyClose(@)]

\* what Close does to the handle: Body.Close() whenever an output is attached
CloseFile(f) ==
    IF f.s3ObjectOutput.nil THEN f
    ELSE [f EXCEPT !.s3ObjectOutput.Body = BodyClose(@)]

\* S3File.Close(); the value kept is the number of Body.Close() calls it made
Close ==
    /\ pc = "idle"
    /\ ~file.nil
    /\ file.s3ObjectOutput.Body.closes < MaxCloses
    /\ file' = CloseFile(file)
    /\ \E e \in BodyCloseErrs(file.s3ObjectOutput.Body) :
         ret' = Ret("Close",
                    IF file' = file THEN "nil" ELSE e,
                    file'.s3ObjectOutput.Body.closes
                        - file.s3ObjectOutput.Body.closes,
                    <<>>)
    /\ calls' = <<>>
    /\ UNCHANGED <<content, pc, frame, threads, readers>>

\* a handle that never sees that it has no output
NoStreamNever(f) == FALSE

\* f.s3ObjectOutput == nil, the check Read and Readdir start with
NoStream(f) == f.s3ObjectOutput.nil

\* S3File.Read(p), len(p) = n, with no other thread on the handle
Read(n) ==
    /\ pc = "idle"
    /\ ~file.nil
    /\ IF NoStream(file)
       THEN /\ ret' = Ret("Read", "CannotRead", <<>>, <<>>)
            /\ UNCHANGED file
       ELSE LET r == BodyRead(file.s3ObjectOutput.Body, n)
            IN  /\ file' = [file EXCEPT !.s3ObjectOutput.Body = r.body]
                /\ ret' = Ret("Read", r.err, r.data, <<>>)
    /\ calls' = <<>>
    /\ UNCHANGED <<content, pc, frame, threads, readers>>

\* the key Write puts at
WriteKey(f) == f.key

\* a Write that appends to what the object held
WriteBodyAppends(old, p) == old \o p

\* the body Write puts: the bytes handed to it, whatever the object held
WriteBody(old, p) == p

\* the body of the object at key, <<>> when there is none
BodyAt(c, key) == IF key \in DOMAIN c THEN c[key].body ELSE <<>>

\* a Write that puts a stream over what it wrote into the handle
WriteHandleRefreshed(f, p) ==
    IF f.s3ObjectOutput.nil THEN f
    ELSE [f EXCEPT !.s3ObjectOutput =
             [nil |-> FALSE, Body |-> NewBody(p), ContentLength |-> Len(p),
              DeleteMarker |-> FALSE]]

\* the handle after Write: no field of it is assigned
WriteHandle(f, p) == f

\* S3File.Write(p); was is the body the object held before
Write(p) ==
    /\ pc = "idle"
    /\ ~file.nil
    /\ Room(content, WriteKey(file))
    /\ \E ok \in BOOLEAN :
         IF ok
         THEN /\ content' = PutObject(content, WriteKey(file),
                                      WriteBody(BodyAt(content, WriteKey(file)), p))
              /\ ret' = Ret("Write", "nil", Len(p),
                            BodyAt(content, WriteKey(file)))
              /\ file' = WriteHandle(file, p)
         ELSE /\ ret' = Ret("Write", "StoreError", 0,
                            BodyAt(content, WriteKey(file)))
              /\ UNCHANGED <<content, file>>
    /\ calls' = <<"PutObject">>
    /\ UNCHANGED <<pc, frame, threads, readers>>


\* &S3FileInfo{key: aws.StringValue(object.Key), s3Object: object}
ListedInfo(object) ==
    [key |-> object.Key, s3ObjectOutput |-> NilOutput,
     s3Object |-> [nil |-> FALSE, Key |-> object.Key, Size |-> object.Size]]

\* the entries Readdir appends for one page
PageInfos(contents) == [i \in 1..Len(contents) |-> ListedInfo(contents[i])]

\* the prefix Readdir lists
ReaddirPrefix(f) == TrimLeft(f.key)

\* the entries Readdir returns beside an error of the listing call
ReaddirOnError(fileInfos) == <<>>

\* a Readdir that stops after its first page
ReaddirBreakAtOnce(out) == TRUE

\* a Readdir that goes on whenever the page says truncated
ReaddirBreakNotTruncated(out) == ~out.IsTruncated

\* whether Readdir's loop ends after a page
ReaddirBreak(out) == ~out.IsTruncated \/ out.NextContinuationToken = <<>>

\* the token Readdir sends with its next listing call
ReaddirNextToken(out) == out.NextContinuationToken

\* S3FileInfo.Name()
InfoName(i) == Base(i.key)

\* the names Readdirnames makes of Readdir's entries
NamesOf(fi) == [i \in 1..Len(fi) |-> SplitFile(InfoName(fi[i]))]

\* Readdir's return, handed on by Readdirnames when the call came through it;
\* was is what the loop had collected when it returned
ReaddirReturn(names, fi, err, was) ==
    IF names THEN Ret("Readdirnames", err, NamesOf(fi), NamesOf(was))
    ELSE Ret("Readdir", err, fi, was)

\* S3File.Readdir(count), or S3File.Readdirnames(count) when names: the call
\* up to the loop
ReaddirCall(count, names) ==
    /\ pc = "idle"
    /\ ~file.nil
    /\ calls' = <<>>
    /\ IF NoStream(file)
       THEN /\ ret' = ReaddirReturn(names, <<>>, "CannotReadDir", <<>>)
            /\ UNCHANGED <<pc, frame>>
       ELSE /\ pc' = "Readdir"
            /\ frame' = [op |-> "Readdir", names |-> names, count |-> count,
                         continuationToken |-> <<>>, fileInfos |-> <<>>]
            /\ ret' = NoRet
    /\ UNCHANGED <<content, file, threads, readers>>

\* the ListObjectsV2Input of a turn of Readdir's loop on handle f, the loop's
\* variables being fr
ListRequest(f, fr) ==
    [Prefix |-> ReaddirPrefix(f),
     ContinuationToken |-> fr.continuationToken,
     MaxKeys |-> <<fr.count>>]

\* one turn of Readdir's loop, the listing call having answered out (or
\* failed, when not ok): its entries appended, and the return when the call
\* failed or the loop ends
ReaddirTurn(ok, out) ==
    /\ pc = "Readdir"
    /\ calls' = Append(calls, "ListObjectsV2")
    /\ IF ~ok
       THEN /\ ret' = ReaddirReturn(frame.names,
                                    ReaddirOnError(frame.fileInfos),
                                    "StoreError", frame.fileInfos)
            /\ pc' = "idle"
            /\ frame' = NoFrame
       ELSE LET fileInfos == frame.fileInfos \o PageInfos(out.Contents)
            IN  IF ReaddirBreak(out)
                THEN /\ ret' = ReaddirReturn(frame.names, fileInfos, "nil",
                                             fileInfos)
                     /\ pc' = "idle"
                     /\ frame' = NoFrame
                ELSE /\ frame' = [frame EXCEPT
                                    !.continuationToken = ReaddirNextToken(out),
                                    !.fileInfos = fileInfos]
                     /\ UNCHANGED <<pc, ret>>
    /\ UNCHANGED <<content, file, threads, readers>>

\* one turn of Readdir's loop against the bucket
ReaddirPage ==
    /\ pc = "Readdir"
    /\ \E ok \in BOOLEAN :
         LET in == ListRequest(file, frame)
         IN  ReaddirTurn(ok, ListObjectsV2(content, in.Prefix,
                                           in.ContinuationToken, in.MaxKeys))

(***************************************************************************)
(* S3Fs.RemoveAll and S3Fs.Rename, one step per store call.                *)
(***************************************************************************)
\* the prefix RemoveAll lists
RemoveAllPrefix(name) == TrimLeft(name)

\* a RemoveAll whose loop over the listing starts one entry late
ObjectIdsFromSecond(contents) == {contents[i].Key : i \in 2..Len(contents)}

\* the keys RemoveAll hands to DeleteObjects
ObjectIds(contents) == {contents[i].Key : i \in 1..Len(contents)}

\* S3Fs.RemoveAll(name), to its listing call
RemoveAllList(name) ==
    /\ pc = "idle"
    /\ calls' = <<"ListObjectsV2">>
    /\ \E ok \in BOOLEAN :
         LET out == ListObjectsV2(content, RemoveAllPrefix(name), <<>>, <<>>)
         IN  IF ~ok
             THEN /\ ret' = Ret("RemoveAll", "StoreError", 0, <<>>)
                  /\ UNCHANGED <<pc, frame>>
             ELSE IF Len(out.Contents) = 0
             THEN /\ ret' = Ret("RemoveAll", "NoObjects", 0, <<>>)
                  /\ UNCHANGED <<pc, frame>>
             ELSE /\ pc' = "RemoveAll"
                  /\ frame' = [op |-> "RemoveAll", name |-> name,
                               objectIds |-> ObjectIds(out.Contents),
                               before |-> content]
                  /\ ret' = NoRet
    /\ UNCHANGED <<content, file, threads, readers>>

\* a RemoveAll that deletes every key under the prefix, as one that followed
\* the listing's pages to the end
RemoveAllDeleteWholePrefix ==
    /\ pc = "RemoveAll"
    /\ calls' = Append(calls, "DeleteObjects")
    /\ LET all == {k \in DOMAIN content :
                      HasPrefix(k, RemoveAllPrefix(frame.name))}
       IN  /\ content' = DeleteObjects(content, all)
           /\ ret' = Ret("RemoveAll", "nil", Cardinality(all), <<>>)
    /\ pc' = "idle"
    /\ frame' = NoFrame
    /\ UNCHANGED <<file, threads, readers>>

\* S3Fs.RemoveAll: the batch delete and the return; the value kept is the
\* number of keys handed to DeleteObjects
RemoveAllDelete ==
    /\ pc = "RemoveAll"
    /\ calls' = Append(calls, "DeleteObjects")
    /\ \E ok \in BOOLEAN :
         IF ok
         THEN /\ content' = DeleteObjects(content, frame.objectIds)
              /\ ret' = Ret("RemoveAll", "nil", Cardinality(frame.objectIds), <<>>)
         ELSE /\ ret' = Ret("RemoveAll", "StoreError",
                            Cardinality(frame.objectIds), <<>>)
              /\ UNCHANGED content
    /\ pc' = "idle"
    /\ frame' = NoFrame
    /\ UNCHANGED <<file, threads, readers>>

\* the copy source Rename names
RenameSource(oldname) == Join(Bucket, oldname)

\* S3Fs.Rename(oldname, newname), to its copy call
RenameCopy(oldname, newname) ==
    /\ pc = "idle"
    /\ Room(content, newname)
    /\ calls' = <<"CopyObject">>
    /\ \E ok \in BOOLEAN :
         LET r == IF ok THEN CopyObject(content, RenameSource(oldname), newname)
                  ELSE [err |-> "StoreError", content |-> content]
         IN  /\ content' = r.content
             /\ IF r.err # "nil"
                THEN /\ ret' = Ret("Rename", r.err, 0, <<>>)
                     /\ UNCHANGED <<pc, frame>>
                ELSE /\ pc' = "RenameDelete"
                     /\ frame' = [op |-> "Rename", oldname |-> oldname,
                                  newname |-> newname, before |-> content]
                     /\ ret' = NoRet
    /\ UNCHANGED <<file, threads, readers>>

\* a Rename that takes its copy back when the delete fails
RenameRollsBack(c, newname) == DeleteObject(c, newname)

\* the bucket Rename leaves when its delete fails: return err, nothing undone
RenameOnDeleteError(c, newname) == c

\* S3Fs.Rename: the delete of the old key
RenameDelete ==
    /\ pc = "RenameDelete"
    /\ calls' = Append(calls, "DeleteObject")
    /\ \E ok \in BOOLEAN :
         IF ok
         THEN /\ content' = DeleteObject(content, frame.oldname)
              /\ pc' = "RenameWait"
              /\ UNCHANGED <<frame, ret>>
         ELSE /\ ret' = Ret("Rename", "StoreError", 0, <<>>)
              /\ pc' = "idle"
              /\ frame' = NoFrame
              /\ content' = RenameOnDeleteError(content, frame.newname)
    /\ UNCHANGED <<file, threads, readers>>

\* S3Fs.Rename: the wait for the new key and the return
RenameWait ==
    /\ pc = "RenameWait"
    /\ calls' = Append(calls, "WaitUntilObjectExists")
    /\ \E ok \in BOOLEAN :
         ret' = Ret("Rename",
                    IF ok THEN WaitUntilObjectExists(content, frame.newname)
                    ELSE "StoreError",
                    0, <<>>)
    /\ pc' = "idle"
    /\ frame' = NoFrame
    /\ UNCHANGED <<content, file, threads, readers>>

(***************************************************************************)
(* S3FileInfo, the two Stat operations, MkdirAll and the unsupported       *)
(* operations of the adapter.                                              *)
(***************************************************************************)
\* a nil *s3.Object
NilObject == [nil |-> TRUE, Key |-> <<>>, Size |-> 0]

\* a nil os.FileInfo
NilInfo == [key |-> <<>>, s3ObjectOutput |-> NilOutput, s3Object |-> NilObject]

\* an IsDir that looks at the fetched output only
IsDirByOutput(i) == i.s3ObjectOutput.nil

\* S3FileInfo.IsDir()
IsDir(i) == i.s3ObjectOutput.nil /\ i.s3Object.nil

\* S3FileInfo.Size()
Size(i) ==
    IF ~i.s3ObjectOutput.nil THEN i.s3ObjectOutput.ContentLength
    ELSE IF ~i.s3Object.nil THEN i.s3Object.Size
    ELSE 0

\* what S3File.Stat() returns for handle f
FileStatInfo(f) ==
    [key |-> f.key, s3ObjectOutput |-> f.s3ObjectOutput, s3Object |-> NilObject]

\* S3File.Stat() on the caller's handle
FileStat ==
    /\ pc = "idle"
    /\ ~file.nil
    /\ ret' = Ret("FileStat", "nil", FileStatInfo(file), <<>>)
    /\ calls' = <<>>
    /\ UNCHANGED <<content, file, pc, frame, threads, readers>>

\* the key S3Fs.Stat gets
StatKey(name) == name

\* S3Fs.Stat on bucket c: the error and the info it returns
StatResult(c, name, ok) ==
    LET r == IF ok THEN GetObject(c, StatKey(name))
             ELSE [err |-> "StoreError", out |-> NilOutput]
    IN  IF r.err # "nil" THEN [err |-> r.err, info |-> NilInfo]
        ELSE [err |-> "nil", info |-> FileStatInfo(S3File(name, r.out))]

\* S3Fs.Stat(name)
Stat(name) ==
    /\ pc = "idle"
    /\ \E ok \in BOOLEAN :
         LET r == StatResult(content, name, ok)
         IN  ret' = Ret("Stat", r.err, r.info, <<>>)
    /\ calls' = <<"GetObject">>
    /\ UNCHANGED <<content, file, pc, frame, threads, readers>>

\* the key MkdirAll puts at
MkdirKey(name) == name

\* S3Fs.MkdirAll(name); was is the path it was given
MkdirAll(name) ==
    /\ pc = "idle"
    /\ Room(content, MkdirKey(name))
    /\ \E ok \in BOOLEAN :
         IF ok
         THEN /\ content' = PutObject(content, MkdirKey(name), <<>>)
              /\ ret' = Ret("MkdirAll", "nil", 0, name)
         ELSE /\ ret' = Ret("MkdirAll", "StoreError", 0, name)
              /\ UNCHANGED content
    /\ calls' = <<"PutObject">>
    /\ UNCHANGED <<file, pc, frame, threads, readers>>

\* S3Fs.Mkdir(name)
Mkdir(name) == MkdirAll(name)

\* an unsupported operation that looks the path up
UnsupportedErrIfAbsent(c, name) ==
    IF name \in DOMAIN c THEN "nil" ELSE "NotFound"

\* what Chmod, Chown and Chtimes return
UnsupportedErr(c, name) == "nil"

\* S3Fs.Chmod(name, mode)
Chmod(name) ==
    /\ pc = "idle"
    /\ ret' = Ret("Chmod", UnsupportedErr(content, name), 0, <<>>)
    /\ calls' = <<>>
    /\ UNCHANGED <<content, file, pc, frame, threads, readers>>

\* S3Fs.Chown(name, mode)
Chown(name) ==
    /\ pc = "idle"
    /\ ret' = Ret("Chown", UnsupportedErr(content, name), 0, <<>>)
    /\ calls' = <<>>
    /\ UNCHANGED <<content, file, pc, frame, threads, readers>>

\* S3Fs.Chtimes(name, atime, mtime)
Chtimes(name) ==
    /\ pc = "idle"
    /\ ret' = Ret("Chtimes", UnsupportedErr(content, name), 0, <<>>)
    /\ calls' = <<>>
    /\ UNCHANGED <<content, file, pc, frame, threads, readers>>

(***************************************************************************)
(* Spec: one caller, one operation at a time, over the operations that     *)
(* talk to the store.                                                      *)
(***************************************************************************)
\* the bucket as the program finds it: empty, or holding one object that
\* carries the deletion marker
InitContents ==
    {<<>>, [k \in {<<"a">>} |-> [body |-> <<>>, deleteMarker |-> TRUE]]}

Init ==
    /\ content \in InitContents
    /\ file = NilFile
    /\ pc = "idle"
    /\ frame = NoFrame
    /\ ret = NoRet
    /\ calls = <<>>
    /\ threads = IdleThreads
    /\ readers = 0

Next ==
    \/ \E name \in Paths : Create(name)
    \/ \E name \in Paths : Open(name)
    \/ \E p \in Payloads : Write(p)
    \/ \E count \in 1..MaxCount, names \in BOOLEAN : ReaddirCall(count, names)
    \/ ReaddirPage
    \/ \E name \in Paths : RemoveAllList(name)
    \/ RemoveAllDelete
    \/ \E oldname \in Paths, newname \in Paths : RenameCopy(oldname, newname)
    \/ RenameDelete
    \/ RenameWait

Spec == Init /\ [][Next]_vars


(***************************************************************************)
(* SpecStream: one caller and every operation of the handle, Read, Close   *)
(* and Stat included, over the paths "a" and "a/".                         *)
(***************************************************************************)
StreamPaths == {<<"a">>, <<"a", Sep>>}

NextStream ==
    \/ \E name \in StreamPaths : Create(name)
    \/ \E name \in StreamPaths : Open(name)
    \/ Close
    \/ \E n \in 0..MaxBuf : Read(n)
    \/ \E p \in Payloads : Write(p)
    \/ FileStat
    \/ \E count \in 1..MaxCount, names \in BOOLEAN : ReaddirCall(count, names)
    \/ ReaddirPage

SpecStream == Init /\ [][NextStream]_vars

(***************************************************************************)
(* SpecRW: NumThreads threads share one open handle and call Read and      *)
(* Close on it.  Read is three steps (the nil check, f.m.RLock(), the      *)
(* stream read with the deferred RUnlock), Close is one: it takes no lock. *)
(***************************************************************************)
\* S3File.Read in thread t: the check of f.s3ObjectOutput
ReadCheck(t, n) ==
    /\ threads[t].pc = "idle"
    /\ IF NoStream(file)
       THEN /\ ret' = Ret("Read", "CannotRead", <<>>, <<>>)
            /\ UNCHANGED threads
       ELSE /\ threads' = [threads EXCEPT ![t] = [pc |-> "RLock", buf |-> n]]
            /\ UNCHANGED ret
    /\ UNCHANGED <<content, file, pc, frame, calls, readers>>

\* S3File.Read in thread t: f.m.RLock(); no thread ever takes the write lock,
\* so it is granted at once, and the thread is inside Body.Read from here
ReadRLock(t) ==
    /\ threads[t].pc = "RLock"
    /\ readers' = readers + 1
    /\ threads' = [threads EXCEPT ![t].pc = "BodyRead"]
    /\ UNCHANGED <<content, file, pc, frame, ret, calls>>

\* S3File.Read in thread t: Body.Read returns, then the deferred f.m.RUnlock()
ReadReturn(t) ==
    /\ threads[t].pc = "BodyRead"
    /\ LET r == BodyRead(file.s3ObjectOutput.Body, threads[t].buf)
       IN  /\ file' = [file EXCEPT !.s3ObjectOutput.Body = r.body]
           /\ ret' = Ret("Read", r.err, r.data, <<>>)
    /\ readers' = readers - 1
    /\ threads' = [threads EXCEPT ![t] = [pc |-> "idle", buf |-> 0]]
    /\ UNCHANGED <<content, pc, frame, calls>>

\* whether Close may go on: it asks for no lock, so whatever the readers do
CloseAdmitted(n) == TRUE

\* S3File.Close in thread t
CloseRW(t) ==
    /\ threads[t].pc = "idle"
    /\ CloseAdmitted(readers)
    /\ Close

\* a handle just opened on an object "a" holding "hi"
InitRW ==
    /\ content = [k \in {<<"a">>} |-> [body |-> <<"h", "i">>, deleteMarker |-> FALSE]]
    /\ file = S3File(<<"a">>, GetObject(content, <<"a">>).out)
    /\ pc = "idle"
    /\ frame = NoFrame
    /\ ret = Ret("Open", "nil", 0, <<>>)
    /\ calls = <<"GetObject">>
    /\ threads = IdleThreads
    /\ readers = 0

NextRW ==
    \/ \E t \in Threads, n \in 1..MaxBuf : ReadCheck(t, n)
    \/ \E t \in Threads : ReadRLock(t)
    \/ \E t \in Threads : ReadReturn(t)
    \/ \E t \in Threads : CloseRW(t)

SpecRW == InitRW /\ [][NextRW]_vars


(***************************************************************************)
(* SpecFs: one caller over the adapter's Create, Open, Mkdir, MkdirAll,    *)
(* Stat, RemoveAll, Chmod, Chown and Chtimes and the handle's Stat, Write  *)
(* and Readdir.                                                            *)
(***************************************************************************)
NextFs ==
    \/ \E name \in Paths : Create(name)
    \/ \E name \in Paths : Open(name)
    \/ \E name \in Paths : Mkdir(name)
    \/ \E name \in Paths : MkdirAll(name)
    \/ \E name \in Paths : Stat(name)
    \/ FileStat
    \/ \E name \in Paths : Chmod(name)
    \/ \E name \in Paths : Chown(name)
    \/ \E name \in Paths : Chtimes(name)
    \/ \E p \in Payloads : Write(p)
    \/ \E count \in 1..MaxCount : ReaddirCall(count, FALSE)
    \/ ReaddirPage
    \/ \E name \in Paths : RemoveAllList(name)
    \/ RemoveAllDelete

SpecFs == Init /\ [][NextFs]_vars


(***************************************************************************)
(* SpecConc: RemoveAll of the path "a" while another client of the bucket  *)
(* puts objects; the other client's puts can fall between RemoveAll's      *)
(* listing and its delete.                                                 *)
(***************************************************************************)
ConcPath == <<"a">>

\* another client of the bucket puts an object
WriterPut(key, p) ==
    /\ Room(content, key)
    /\ content' = PutObject(content, key, p)
    /\ UNCHANGED <<file, pc, frame, ret, calls, threads, readers>>

NextConc ==
    \/ RemoveAllList(ConcPath)
    \/ RemoveAllDelete
    \/ \E key \in Paths, p \in Payloads : WriterPut(key, p)

SpecConc == Init /\ [][NextConc]_vars


(***************************************************************************)
(* SpecPage: Readdir on an open handle against stores that page as they    *)
(* like: the test double, which answers every listing with all keys,       *)
(* truncated and without token, and a store that answers any page at all.  *)
(***************************************************************************)
\* fakeS3Api.ListObjectsV2: every key of the bucket, IsTruncated true, no token
FakeListObjectsV2(c) ==
    LET all == KeysUnder(c, <<>>)
    IN  [Contents |-> [i \in 1..Len(all) |-> [Key |-> all[i], Size |-> 0]],
         IsTruncated |-> TRUE,
         NextContinuationToken |-> <<>>]

\* the pages a store can answer: no or one entry, truncated or not, with or
\* without token
AnyPages ==
    [Contents : {<<>>, <<[Key |-> <<"a">>, Size |-> 0]>>},
     IsTruncated : BOOLEAN,
     NextContinuationToken : {<<>>, << <<"a">> >>}]

\* one turn of Readdir's loop against the test double
ReaddirPageFake ==
    /\ pc = "Readdir"
    /\ ReaddirTurn(TRUE, FakeListObjectsV2(content))

\* one turn of Readdir's loop against a store that answers any page, or fails
ReaddirPageAny ==
    /\ pc = "Readdir"
    /\ Len(calls) < MaxPages
    /\ \E ok \in BOOLEAN, out \in AnyPages : ReaddirTurn(ok, out)

NextPage ==
    \/ \E count \in 1..MaxCount, names \in BOOLEAN : ReaddirCall(count, names)
    \/ ReaddirPageFake
    \/ ReaddirPageAny

SpecPage == InitRW /\ [][NextPage]_vars


(***************************************************************************)
(* Properties.                                                             *)
(***************************************************************************)
\* get(bucket, key) answers with an object whose body is data
Holds(c, key, data) ==
    LET g == GetObject(c, key)
    IN  /\ g.err = "nil"
        /\ g.out.Body.data = data
        /\ g.out.ContentLength = Len(data)

\* C1: every successful Write(p) on a handle with key k returns len(p) and
\* leaves get(bucket, k) answering exactly p, whatever the object held before
\* (so Write(P2) after Write(P1) leaves only P2).
C1_WriteReplacesWholeObject ==
    [][\A p \in Payloads :
          (Write(p) /\ ret'.err = "nil") =>
              /\ Holds(content', file.key, p)
              /\ ret'.val = Len(p)]_vars

\* C1 happens: a successful Write of the empty payload on an object that held
\* "hi", which now holds nothing
C1_Witness ==
    /\ pc = "idle"
    /\ ret.op = "Write"
    /\ ret.err = "nil"
    /\ ret.was = <<"h", "i">>
    /\ ret.val = 0
    /\ Holds(content, file.key, <<>>)

\* the caller holds the handle a successful Create of a file path just returned
CreatedFile ==
    /\ pc = "idle"
    /\ ret.op = "Create"
    /\ ret.err = "nil"
    /\ ~file.s3ObjectOutput.nil

\* C2: after Create(p) on an empty bucket get(bucket, TrimLeft(p)) answers a
\* zero-length object, and after Write("hi") on the handle Create returned it
\* answers "hi", size 2.
C2_CreateThenWrite ==
    /\ [](CreatedFile => Holds(content, TrimLeft(file.key), <<>>))
    /\ [][(/\ CreatedFile
           /\ DOMAIN content = {TrimLeft(file.key)}
           /\ Write(<<"h", "i">>)
           /\ ret'.err = "nil")
          => Holds(content', TrimLeft(file.key), <<"h", "i">>)]_vars

\* C3: whenever Rename(old, new), old # new, returns success on a bucket that
\* held an object at old, get(bucket, new) answers that object's content and
\* get(bucket, old) fails with NotFound.
C3_RenameMovesContent ==
    [][(/\ RenameWait
        /\ ret'.err = "nil"
        /\ frame.oldname # frame.newname
        /\ frame.oldname \in DOMAIN frame.before)
       => /\ Holds(content', frame.newname, frame.before[frame.oldname].body)
          /\ GetObject(content', frame.oldname).err = "NotFound"]_vars

\* the keys of c under the prefix RemoveAll(name) is about
Under(c, name) == {k \in DOMAIN c : HasPrefix(k, TrimLeft(name))}

\* C4: with no other writer and no failing store call, RemoveAll(name) on a
\* bucket holding N >= 1 keys under the prefix removes all N, leaves every
\* other key as it was and returns success; with no key under the prefix it
\* fails with NoObjects after the listing call alone, the bucket unchanged.
C4_RemoveAllRemovesAll ==
    [][/\ \A name \in Paths :
            (RemoveAllList(name) /\ ret'.err # "StoreError") =>
                IF Under(content, name) = {}
                THEN /\ ret'.err = "NoObjects"
                     /\ pc' = "idle"
                     /\ calls' = <<"ListObjectsV2">>
                     /\ content' = content
                ELSE pc' = "RemoveAll"
       /\ (RemoveAllDelete /\ ret'.err # "StoreError") =>
              /\ ret'.err = "nil"
              /\ Under(content', frame.name) = {}
              /\ \A k \in DOMAIN frame.before \ Under(frame.before, frame.name) :
                    k \in DOMAIN content' /\ content'[k] = frame.before[k]]_vars


\* the keys of Readdir's entries, in the order returned
KeysOf(fi) == [i \in 1..Len(fi) |-> fi[i].key]

\* what Readdir has collected after a step
Collected == IF pc = "Readdir" THEN frame.fileInfos ELSE ret.was

C6_OpenGetsNormalizedKey ==
    [][\A name \in Paths :
          Open(name) =>
              LET k == TrimLeft(name)
              IN  /\ content' = content
                  /\ calls' = <<"GetObject">>
                  /\ \/ ret'.err = "StoreError" /\ file'.nil
                     \/ /\ k \notin DOMAIN content
                        /\ ret'.err = "NotFound"
                        /\ file'.nil
                     \/ /\ k \in DOMAIN content
                        /\ content[k].deleteMarker
                        /\ ret'.err = "Deleted"
                        /\ file'.nil
                     \/ /\ k \in DOMAIN content
                        /\ ~content[k].deleteMarker
                        /\ ret'.err = "nil"
                        /\ file' = S3File(name, GetObject(content, k).out)]_vars

\* C6 happens: Open found the deletion marker on the object at the key
C6_Witness ==
    /\ pc = "idle"
    /\ ret.op = "Open"
    /\ ret.err = "Deleted"
    /\ file.nil
    /\ \E k \in DOMAIN content : content[k].deleteMarker

\* C7: Create(name) with name ending in the separator makes no store call,
\* leaves the bucket as it was and returns a handle with no output; otherwise
\* it puts an empty body at TrimLeft(name) and then does what Open does, and
\* when the put fails it returns the error with no get and no handle.
C7_CreatePutsThenOpens ==
    [][\A name \in Paths :
          Create(name) =>
              LET k == TrimLeft(name)
              IN  IF HasSuffix(name)
                  THEN /\ calls' = <<>>
                       /\ content' = content
                       /\ ret'.err = "nil"
                       /\ file' = S3File(name, NilOutput)
                  ELSE \/ /\ calls' = <<"PutObject">>
                          /\ content' = content
                          /\ ret'.err = "StoreError"
                          /\ file'.nil
                       \/ /\ calls' = <<"PutObject", "GetObject">>
                          /\ content' = PutObject(content, k, <<>>)
                          /\ \/ ret'.err = "StoreError" /\ file'.nil
                             \/ /\ ret'.err = "nil"
                                /\ file' = S3File(name, GetObject(content', k).out)
       ]_vars

\* C7 happens: Create of a path ending in the separator returned a handle with
\* no output and issued no store call
C7_Witness ==
    /\ pc = "idle"
    /\ ret.op = "Create"
    /\ ret.err = "nil"
    /\ calls = <<>>
    /\ ~file.nil
    /\ file.s3ObjectOutput.nil
    /\ HasSuffix(file.key)

\* how often the handle's stream was released
Released == file.s3ObjectOutput.Body.closes

\* C8 as stated: Close on a handle with no stream or on a handle closed
\* before changes nothing and returns no error, and a stream is released at
\* most once.
C8_CloseIdempotent ==
    /\ [](Released <= 1)
    /\ [][(Close /\ (file.s3ObjectOutput.nil \/ file.s3ObjectOutput.Body.closed))
          => (file' = file /\ ret'.err = "nil")]_vars

\* C8 as amended: Close on a handle with no stream changes nothing and returns
\* no error; Close on a handle with a stream calls the stream's Close every
\* time, also when the handle was closed before, and changes nothing else.
C8_CloseCallsStreamClose ==
    [][Close =>
          IF file.s3ObjectOutput.nil
          THEN file' = file /\ ret'.err = "nil" /\ ret'.val = 0
          ELSE /\ Released' = Released + 1
               /\ ret'.val = 1
               /\ file' = [file EXCEPT !.s3ObjectOutput.Body = BodyClose(@)]
               /\ content' = content]_vars

\* C8 happens: a second Close on the same handle released its stream again
C8_Witness ==
    /\ pc = "idle"
    /\ ret.op = "Close"
    /\ ret.val = 1
    /\ Released = 2

\* C9: Close never releases the stream while a thread is inside the stream
\* read of Read.
C9_CloseExcludesRead ==
    [][(Released' > Released) =>
          \A t \in Threads : threads[t].pc # "BodyRead"]_vars

\* C10: when a listing call fails after at least one page succeeded,
\* Readdirnames returns, beside the error, the names of the entries collected
\* from the pages that succeeded.
C10_ReaddirnamesKeepsPartialNames ==
    (/\ pc = "idle"
     /\ ret.op = "Readdirnames"
     /\ ret.err = "StoreError"
     /\ Len(ret.was) >= 1)
    => ret.val = ret.was


FirstPage(c, name) ==
    LET out == ListObjectsV2(c, TrimLeft(name), <<>>, <<>>)
    IN  {out.Contents[i].Key : i \in 1..Len(out.Contents)}

\* C12: a RemoveAll that succeeds deletes the keys its own listing returned
\* and nothing else: every other object is left as it is, so a key another
\* client put under the prefix after the listing is still there.
C12_RemoveAllNotIsolated ==
    [][(RemoveAllDelete /\ ret'.err = "nil") =>
          /\ DOMAIN content' = DOMAIN content \ FirstPage(frame.before, frame.name)
          /\ \A k \in DOMAIN content' : content'[k] = content[k]
          /\ \A k \in DOMAIN content \ DOMAIN frame.before :
                HasPrefix(k, TrimLeft(frame.name)) => k \in DOMAIN content'
      ]_vars

\* C12 happens: RemoveAll("a") listed one key, deleted it and returned
\* success, and the bucket holds a key under "a" that was put in between
C12_Witness ==
    /\ pc = "idle"
    /\ ret.op = "RemoveAll"
    /\ ret.err = "nil"
    /\ ret.val = 1
    /\ \E k \in DOMAIN content : HasPrefix(k, TrimLeft(ConcPath))


\* C13: after MkdirAll(p) succeeded, Stat(p) answers with an entry that
\* reports a directory, and RemoveAll(p) finds the key MkdirAll made.
C13_MkdirMakesDirectory ==
    [][\A p \in Paths :
          (pc = "idle" /\ ret.op = "MkdirAll" /\ ret.err = "nil" /\ ret.was = p) =>
              /\ (Stat(p) /\ ret'.err # "StoreError") =>
                     (ret'.err = "nil" /\ IsDir(ret'.val))
              /\ (RemoveAllList(p) /\ ret'.err # "StoreError") =>
                     ret'.err # "NoObjects"
      ]_vars

\* C14: the entry of Stat on a handle reports a directory exactly when the
\* handle has no fetched output, as the handle Create returns for a path
\* ending in the separator; the entry of the adapter's Stat and every entry
\* of Readdir report no directory.
C14_IsDirIffNoSource ==
    /\ (pc = "idle" /\ ret.op = "FileStat") =>
           (IsDir(ret.val) <=> file.s3ObjectOutput.nil)
    /\ (pc = "idle" /\ ret.op = "Stat" /\ ret.err = "nil") => ~IsDir(ret.val)
    /\ (pc = "idle" /\ ret.op = "Readdir") =>
           \A i \in 1..Len(ret.val) : ~IsDir(ret.val[i])
    /\ (pc = "Readdir") =>
           \A i \in 1..Len(frame.fileInfos) : ~IsDir(frame.fileInfos[i])

\* C14 happens: Stat on the handle Create returned for a path ending in the
\* separator reported a directory, the bucket holding an object at that path
C14_Witness ==
    /\ pc = "idle"
    /\ ret.op = "FileStat"
    /\ IsDir(ret.val)
    /\ HasSuffix(file.key)
    /\ file.key \in DOMAIN content

\* C16: Chmod, Chown and Chtimes return no error for every path, make no
\* store call and leave bucket and handle as they are, so Stat of every path
\* answers after them what it answered before.  (The steps that return from
\* Chmod, Chown or Chtimes are the steps of these three.)
C16_UnsupportedChangeNothing ==
    [][(ret'.op \in {"Chmod", "Chown", "Chtimes"}) =>
          /\ ret'.err = "nil"
          /\ calls' = <<>>
          /\ content' = content
          /\ file' = file
          /\ \A p \in Paths :
                StatResult(content', p, TRUE) = StatResult(content, p, TRUE)
      ]_vars

\* C16 happens: Chtimes returned on a bucket that holds one object, so that
\* some of the paths exist and some do not
C16_Witness ==
    /\ pc = "idle"
    /\ ret.op = "Chtimes"
    /\ ret.err = "nil"
    /\ calls = <<>>
    /\ Cardinality(DOMAIN content) = 1

\* C19: Stat(p) succeeds exactly when Open(p) returns a handle, and after
\* Create(p) succeeded for a path not ending in the separator Stat(p)
\* succeeds and reports size 0.
C19_StatResolvesLikeOpen ==
    [][\A p \in Paths :
          (Stat(p) /\ ret'.err # "StoreError") =>
              /\ (ret'.err = "nil") <=> (OpenResult(content, p, TRUE).err = "nil")
              /\ (/\ ret.op = "Create"
                  /\ ret.err = "nil"
                  /\ ~file.nil
                  /\ file.key = p
                  /\ ~HasSuffix(p))
                 => (ret'.err = "nil" /\ Size(ret'.val) = 0)
      ]_vars


\* C15: Read and Readdir on a handle that has no fetched output fail with
\* their own error, issue no store call and leave handle and bucket as they
\* are.
C15_StreamlessReadFails ==
    [][/\ \A n \in 0..MaxBuf :
            (Read(n) /\ file.s3ObjectOutput.nil) =>
                /\ ret'.err = "CannotRead"
                /\ calls' = <<>>
                /\ file' = file
                /\ content' = content
       /\ \A count \in 1..MaxCount, names \in BOOLEAN :
            (ReaddirCall(count, names) /\ file.s3ObjectOutput.nil) =>
                /\ ret'.err = "CannotReadDir"
                /\ pc' = "idle"
                /\ calls' = <<>>
                /\ file' = file
                /\ content' = content
      ]_vars

\* C15 happens: Read failed on the handle Create returned for a path ending
\* in the separator
C15_Witness ==
    /\ pc = "idle"
    /\ ret.op = "Read"
    /\ ret.err = "CannotRead"
    /\ ~file.nil
    /\ file.s3ObjectOutput.nil
    /\ HasSuffix(file.key)

\* C20: Write leaves the handle as it is, so that Stat on the handle and Read
\* answer after it what they would have answered before; a Write whose put
\* fails returns 0 and the error and leaves the bucket as it is; Stat on the
\* handle makes no store call.
C20_WriteLeavesHandle ==
    [][/\ \A p \in Payloads :
            Write(p) =>
                /\ file' = file
                /\ FileStatInfo(file') = FileStatInfo(file)
                /\ \A n \in 0..MaxBuf :
                      BodyRead(file'.s3ObjectOutput.Body, n)
                          = BodyRead(file.s3ObjectOutput.Body, n)
                /\ ret'.err # "nil" => (ret'.val = 0 /\ content' = content)
       /\ FileStat =>
                /\ ret'.val = FileStatInfo(file)
                /\ calls' = <<>>
                /\ content' = content
      ]_vars

\* C20 happens: after a Write of the empty payload through a handle opened
\* on "hi", Read on that handle returned "hi"
C20_Witness ==
    /\ pc = "idle"
    /\ ret.op = "Read"
    /\ ret.err = "nil"
    /\ ret.val = <<"h", "i">>
    /\ file.key \in DOMAIN content
    /\ content[file.key].body = <<>>


\* C17: Readdir's first listing call carries no continuation token; after a
\* page the loop goes on exactly when the page said truncated and carried a
\* token, and the next call then carries that token; it returns after the
\* first other page, so after one call against the test double, which says
\* truncated and gives no token.
C17_ReaddirLoopsOnTruncatedAndToken ==
    [][/\ \A count \in 1..MaxCount, names \in BOOLEAN :
            (ReaddirCall(count, names) /\ pc' = "Readdir") =>
                /\ calls' = <<>>
                /\ ListRequest(file', frame').ContinuationToken = <<>>
       /\ \A out \in AnyPages :
            (pc = "Readdir" /\ ReaddirTurn(TRUE, out)) =>
                /\ (pc' = "Readdir") <=>
                       (out.IsTruncated /\ out.NextContinuationToken # <<>>)
                /\ (pc' = "Readdir") =>
                       ListRequest(file', frame').ContinuationToken
                           = out.NextContinuationToken
                /\ (pc' = "idle") => ret'.err = "nil"
       /\ ReaddirPageFake => (pc' = "idle" /\ ret'.err = "nil")
      ]_vars

\* C17 happens: every page so far said truncated and carried a token, and
\* Readdir is still in its loop after MaxPages listing calls
C17_Witness ==
    /\ pc = "Readdir"
    /\ Len(calls) = MaxPages
    /\ frame.continuationToken # <<>>

\* C18: inside a Rename the store calls made so far are the copy, then the
\* delete, in that order and once each, and when there was an object at old
\* its content is at old or at new.
C18_RenameKeepsContent ==
    /\ (pc = "RenameDelete") => calls = <<"CopyObject">>
    /\ (pc = "RenameWait") => calls = <<"CopyObject", "DeleteObject">>
    /\ (pc \in {"RenameDelete", "RenameWait"}
        /\ frame.oldname # frame.newname
        /\ frame.oldname \in DOMAIN frame.before) =>
           LET C == frame.before[frame.oldname].body
           IN  \/ Holds(content, frame.oldname, C)
               \/ Holds(content, frame.newname, C)


====
